---- MODULE Spec2Model ----
(***************************************************************************)
(* Model of the model-manager of private-gpt: the ModelRegistry and its    *)
(* persisted document, the ModelLoader's download tasks with their         *)
(* background threads, and the ModelManagerComponent's load / unload /     *)
(* switch operations together with the router's delete handler.            *)
(*                                                                         *)
(* Caller threads execute the handlers statement by statement wherever a   *)
(* statement reads or writes state another thread can see.                 *)
(***************************************************************************)
EXTENDS Integers, FiniteSets, Sequences, TLC

(* ---- bounds ----------------------------------------------------------- *)
MaxDownloads == 1      \* download_model calls that register a model, all handlers at work
MaxTasks == 2          \* the same, where only the download handlers are at work
MaxFairTasks == 2      \* the same, where the download threads are followed to their end
MaxRegs == 1           \* the same, where registrations race with updates and removals
MaxFailRegs == 1       \* the same, where writes of the document can fail
MaxLoads == 2          \* handles the model instantiator hands out

Threads == {"t1", "t2"}
ModelIds == {"current_llm", "m1"}
SwitchTypes == {"llm"}

(* ---- values ----------------------------------------------------------- *)
NoId == "none"
NoPath == "none"
NoError == "none"
NoHandle == 0
NoTask == 0
NoLock == "none"

\* progress is kept in tenths: 0.0, 0.1, 1.0
P00 == 0
P01 == 1
P10 == 10

\* ModelInfo (models.py); oid is the identity of the Python object, which
\* matters because load_model / unload_model change is_loaded in place.
ModelInfo(id, type, name, loaded, downloading, o) ==
    [model_id |-> id, model_type |-> type, model_name |-> name,
     model_path |-> NoPath, is_loaded |-> loaded, is_downloading |-> downloading,
     size_gb |-> "none", capabilities |-> IF id = "current_llm" THEN <<"chat", "completion">> ELSE <<>>,
     oid |-> o]

NoInfo == ModelInfo(NoId, "none", "none", FALSE, FALSE, 0)

\* identities of the objects made during construction; later ones count on
DocOid == 1
CurrentOid == 2
FirstOid == 3

\* the request bodies a caller can send to download_model
Config(id, type, repo) == [model_id |-> id, model_type |-> type, model_name |-> "m1-name", repo_id |-> repo]

Configs ==
    {Config(NoId, "llm", "org/repo"), Config("m1", "llm", "org/repo"),
     Config("m1", "analysis", "org/repo"), Config("m1", "llm", "none")}

NoConfig == [model_id |-> NoId, model_type |-> "none", model_name |-> "none", repo_id |-> "none"]

\* the dict start_download records (the local_path key is added on completion)
Task(cfg, st, pr, err, path) ==
    [model_config |-> cfg, status |-> st, progress |-> pr, error |-> err, local_path |-> path]

NoTaskDict == Task(NoConfig, "none", P00, NoError, NoPath)

EmptyMap == [k \in {} |-> NoInfo]

\* the response a caller holds until the next request comes in: thread,
\* handler, model id, result ("True", "False", "ValueError", "id", "dict",
\* "None"), task id and task dict where there is one
Resp(t, o, id, r, i, d) == [t |-> t, op |-> o, id |-> id, ret |-> r, rid |-> i, obs |-> d]

NoResp == Resp("none", "none", NoId, "none", NoTask, NoTaskDict)

\* d with key k bound to v (dict item assignment)
Put(d, k, v) == [x \in DOMAIN d \cup {k} |-> IF x = k THEN v ELSE d[x]]

\* d without key k (del d[k])
Del(d, k) == [x \in DOMAIN d \ {k} |-> d[x]]

VARIABLES
    models,          \* ModelRegistry.models : model_id -> ModelInfo
    disk,            \* the persisted document model_registry.json
    loaded_models,   \* ModelManagerComponent.loaded_models : model_id -> handle
    active,          \* the active_<type>_id attributes
    download_tasks,  \* ModelLoader.download_tasks : task id -> task dict
    lock,            \* owner of ModelManagerComponent._lock
    nInst,           \* handles created by the instantiator so far
    nextOid,         \* ModelInfo objects created so far
    bgpc,            \* position of each download thread
    bgval,           \* local_path / exception held by each download thread
    pc, op,          \* position and outermost handler of each caller thread
    a_id, a_type, a_cfg,   \* the handler's arguments
    info, model, data,     \* locals: model_info, model, _save_registry's data
    listed,                \* the mapping get_all_models returned to each caller
    resp                   \* the response just given: who called what, and the result

shared == <<models, disk, loaded_models, active, download_tasks, lock, nInst, nextOid>>
bgvars == <<bgpc, bgval>>
locals == <<pc, op, a_id, a_type, a_cfg, info, model, data, listed, resp>>
vars == <<shared, bgvars, locals>>

(* ---- pydantic / json -------------------------------------------------- *)
\* ModelInfo.dict(): the fields of the object, without its identity
Dict(mi) ==
    [model_id |-> mi.model_id, model_type |-> mi.model_type, model_name |-> mi.model_name,
     model_path |-> mi.model_path, is_loaded |-> mi.is_loaded,
     is_downloading |-> mi.is_downloading, size_gb |-> mi.size_gb,
     capabilities |-> mi.capabilities]

\* data = {k: v.dict() for k, v in self.models.items()}
Snapshot(ms) == [k \in DOMAIN ms |-> Dict(ms[k])]

\* model_info.is_loaded = v on the object obj: visible through the registry
\* exactly when the registry still holds that same object
SetLoadedInPlace(ms, obj, v) ==
    [k \in DOMAIN ms |-> IF ms[k].oid = obj.oid THEN [ms[k] EXCEPT !.is_loaded = v] ELSE ms[k]]

\* an id generator that hands out the latest id again
Uuid4_Reused == IF DOMAIN download_tasks = {} THEN 1 ELSE Cardinality(DOMAIN download_tasks)

\* uuid.uuid4(): an id no earlier task has
Uuid4 == Cardinality(DOMAIN download_tasks) + 1

(* ---- construction ----------------------------------------------------- *)
\* the documents an earlier run of the process can have left behind: none,
\* or one with the model m1 that run registered by download_model
PriorDocs ==
    {EmptyMap, Put(EmptyMap, "m1", ModelInfo("m1", "llm", "m1-name", FALSE, TRUE, DocOid))}

\* ModelManagerComponent.__init__: the registry read from the document
\* (_load_registry), then _initialize_current_models
InitialModels(doc, mode) ==
    IF mode # "mock"
    THEN Put(doc, "current_llm", ModelInfo("current_llm", "llm", "local_current", TRUE, FALSE, CurrentOid))
    ELSE doc

Init ==
    /\ \E mode \in {"mock", "local"}, doc \in PriorDocs :
          /\ models = InitialModels(doc, mode)
          /\ disk = Snapshot(InitialModels(doc, mode))
    /\ loaded_models = [k \in {} |-> NoHandle]
    /\ active = [ty \in SwitchTypes |-> NoId]
    /\ download_tasks = [k \in {} |-> NoTaskDict]
    /\ lock = NoLock
    /\ nInst = 0
    /\ nextOid = FirstOid
    /\ bgpc = [k \in {} |-> "none"]
    /\ bgval = [k \in {} |-> "none"]
    /\ pc = [t \in Threads |-> "done"]
    /\ op = [t \in Threads |-> "none"]
    /\ a_id = [t \in Threads |-> NoId]
    /\ a_type = [t \in Threads |-> "none"]
    /\ a_cfg = [t \in Threads |-> NoConfig]
    /\ info = [t \in Threads |-> NoInfo]
    /\ model = [t \in Threads |-> NoHandle]
    /\ data = [t \in Threads |-> EmptyMap]
    /\ listed = [t \in Threads |-> EmptyMap]
    /\ resp = NoResp

(* ---- calling and returning -------------------------------------------- *)
\* thread t enters handler o with these arguments and stands at p
Enter(t, o, id, ty, cfg, p) ==
    /\ pc[t] = "done"
    /\ pc' = [pc EXCEPT ![t] = p]
    /\ op' = [op EXCEPT ![t] = o]
    /\ a_id' = [a_id EXCEPT ![t] = id]
    /\ a_type' = [a_type EXCEPT ![t] = ty]
    /\ a_cfg' = [a_cfg EXCEPT ![t] = cfg]
    /\ resp' = NoResp
    /\ UNCHANGED <<info, model, data, listed>>

\* thread t runs handler o to its end in one step: it returns r, task id i, dict d
Finish(t, o, id, r, i, d) ==
    /\ pc[t] = "done"
    /\ resp' = Resp(t, o, id, r, i, d)
    /\ UNCHANGED <<pc, op, a_id, a_type, a_cfg, info, model, data, listed>>

\* thread t moves to position p inside its handler
Goto(t, p) ==
    /\ pc' = [pc EXCEPT ![t] = p]
    /\ UNCHANGED <<op, a_id, a_type, a_cfg, listed, resp>>

\* the locals of the function that returns die
ClearLocals(t) ==
    /\ info' = [info EXCEPT ![t] = NoInfo]
    /\ model' = [model EXCEPT ![t] = NoHandle]
    /\ data' = [data EXCEPT ![t] = EmptyMap]

\* a nested call of thread t returns and its caller goes on at p
Continue(t, p) ==
    /\ Goto(t, p)
    /\ ClearLocals(t)

\* the outermost handler of thread t returns r (and task id i)
Return(t, r, i) ==
    /\ pc' = [pc EXCEPT ![t] = "done"]
    /\ resp' = Resp(t, op[t], a_id[t], r, i, NoTaskDict)
    /\ op' = [op EXCEPT ![t] = "none"]
    /\ a_id' = [a_id EXCEPT ![t] = NoId]
    /\ a_type' = [a_type EXCEPT ![t] = "none"]
    /\ a_cfg' = [a_cfg EXCEPT ![t] = NoConfig]
    /\ ClearLocals(t)
    /\ UNCHANGED listed

\* a handler that does not wait for the lock
LockFree_NoLock(t) == TRUE

\* threading.RLock: free, or already held by the thread that asks
LockFree(t) == lock \in {NoLock, t}

\* load_model returns r: to its caller switch_active_model, or to the router
LoadReturn(t, r) ==
    IF op[t] = "switch" /\ r = "True" THEN Continue(t, "sw_set") ELSE Return(t, r, NoTask)

\* unload_model returns r: to its caller delete_model, or to the router
UnloadReturn(t, r) ==
    IF op[t] = "delete" THEN Continue(t, "rm_del") ELSE Return(t, r, NoTask)

(* ---- ModelRegistry._save_registry ------------------------------------- *)
WriteOf(p) ==
    CASE p = "dl_snap" -> "dl_write"
      [] p = "ld_snap" -> "ld_write"
      [] p = "ul_snap" -> "ul_write"
      [] p = "rm_snap" -> "rm_write"

\* line 34: data = {k: v.dict() for k, v in self.models.items()}
save_snapshot(t) ==
    /\ pc[t] \in {"dl_snap", "ld_snap", "ul_snap", "rm_snap"}
    /\ data' = [data EXCEPT ![t] = Snapshot(models)]
    /\ Goto(t, WriteOf(pc[t]))
    /\ UNCHANGED <<shared, bgvars, info, model>>

\* _save_registry is over: the caller of register_model / update_model /
\* remove_model goes on after it
AfterSave(t) ==
    CASE pc[t] \in {"dl_snap", "dl_write"} -> Continue(t, "dl_start") /\ UNCHANGED lock
      [] pc[t] \in {"ld_snap", "ld_write"} -> LoadReturn(t, "True") /\ lock' = NoLock
      [] pc[t] \in {"ul_snap", "ul_write"} -> UnloadReturn(t, "True") /\ lock' = NoLock
      [] pc[t] \in {"rm_snap", "rm_write"} -> Return(t, "True", NoTask) /\ UNCHANGED lock

\* line 35: json.dump(data, f); then the caller of register_model /
\* update_model / remove_model goes on
save_write(t) ==
    /\ pc[t] \in {"dl_write", "ld_write", "ul_write", "rm_write"}
    /\ disk' = data[t]
    /\ AfterSave(t)
    /\ UNCHANGED <<models, loaded_models, active, download_tasks, nInst, nextOid, bgvars>>

\* a failed write whose exception leaves _save_registry and reaches the caller
save_fails_Raises(t) ==
    /\ pc[t] \in {"dl_snap", "ld_snap", "ul_snap", "rm_snap"}
    /\ Return(t, "OSError", NoTask)
    /\ lock' = NoLock
    /\ UNCHANGED <<models, disk, loaded_models, active, download_tasks, nInst, nextOid, bgvars>>

\* lines 31-37: mkdir or open raises before anything is written and leaves
\* the document as it was, or json.dump raises after open(..., 'w') emptied
\* the document, from which a Registry then reads no entry; the except
\* clause logs and the caller goes on
save_fails(t) ==
    /\ \/ pc[t] \in {"dl_snap", "ld_snap", "ul_snap", "rm_snap"} /\ UNCHANGED disk
       \/ pc[t] \in {"dl_write", "ld_write", "ul_write", "rm_write"} /\ disk' = EmptyMap
    /\ AfterSave(t)
    /\ UNCHANGED <<models, loaded_models, active, download_tasks, nInst, nextOid, bgvars>>

(* ---- ModelManagerComponent.download_model ----------------------------- *)
\* lines 59-72, up to register_model's assignment to self.models
download_model(t, cfg) ==
    IF cfg.model_id = NoId
    THEN /\ Finish(t, "download", NoId, "ValueError", NoTask, NoTaskDict)
         /\ UNCHANGED <<shared, bgvars>>
    ELSE /\ models' = Put(models, cfg.model_id,
                          ModelInfo(cfg.model_id, cfg.model_type, cfg.model_name, FALSE, TRUE, nextOid))
         /\ nextOid' = nextOid + 1
         /\ Enter(t, "download", cfg.model_id, "none", cfg, "dl_snap")
         /\ UNCHANGED <<disk, loaded_models, active, download_tasks, lock, nInst, bgvars>>

(* ---- ModelLoader.start_download and the download thread --------------- *)
\* lines 26-43: fresh id, task entry, thread.start(), return the id
start_download(t) ==
    /\ pc[t] = "dl_start"
    /\ download_tasks' = Put(download_tasks, Uuid4, Task(a_cfg[t], "downloading", P00, NoError, NoPath))
    /\ bgpc' = Put(bgpc, Uuid4, "bg_start")
    /\ bgval' = Put(bgval, Uuid4, "none")
    /\ Return(t, "id", Uuid4)
    /\ UNCHANGED <<models, disk, loaded_models, active, lock, nInst, nextOid>>

BgGoto(d, p, v) ==
    /\ bgpc' = [bgpc EXCEPT ![d] = p]
    /\ bgval' = [bgval EXCEPT ![d] = v]

SetTask(d, field, v) == download_tasks' = [download_tasks EXCEPT ![d] = [@ EXCEPT ![field] = v]]

\* lines 48-56: the repo_id check, then status = "downloading"
bg_start(d) ==
    /\ bgpc[d] = "bg_start"
    /\ IF download_tasks[d].model_config.repo_id = "none"
       THEN BgGoto(d, "bg_failed", "repo_id is required") /\ UNCHANGED download_tasks
       ELSE BgGoto(d, "bg_progress", "none") /\ SetTask(d, "status", "downloading")

\* line 57
bg_progress(d) ==
    /\ bgpc[d] = "bg_progress"
    /\ SetTask(d, "progress", P01)
    /\ BgGoto(d, "bg_fetch", "none")

\* lines 59-75: hf_hub_download / snapshot_download returns a path or raises;
\* model_config["model_id"] raises KeyError when the key is missing
bg_fetch(d) ==
    /\ bgpc[d] = "bg_fetch"
    /\ \/ /\ download_tasks[d].model_config.model_id # NoId
          /\ BgGoto(d, "bg_completed", "models/local")
       \/ BgGoto(d, "bg_failed", "fetch failed")
    /\ UNCHANGED download_tasks

\* line 78
bg_completed(d) ==
    /\ bgpc[d] = "bg_completed"
    /\ SetTask(d, "status", "completed")
    /\ BgGoto(d, "bg_prog1", bgval[d])

\* line 79
bg_prog1(d) ==
    /\ bgpc[d] = "bg_prog1"
    /\ SetTask(d, "progress", P10)
    /\ BgGoto(d, "bg_path", bgval[d])

\* line 80 raising after the status was set, so that the handler of line 84 runs
bg_path_Raises(d) ==
    /\ bgpc[d] = "bg_path"
    /\ UNCHANGED download_tasks
    /\ BgGoto(d, "bg_failed", "TypeError")

\* line 80
bg_path(d) ==
    /\ bgpc[d] = "bg_path"
    /\ SetTask(d, "local_path", bgval[d])
    /\ BgGoto(d, "bg_done", "none")

\* line 86
bg_failed(d) ==
    /\ bgpc[d] = "bg_failed"
    /\ SetTask(d, "status", "failed")
    /\ BgGoto(d, "bg_error", bgval[d])

\* line 87 left out: the failure is not recorded
bg_error_Skipped(d) ==
    /\ bgpc[d] = "bg_error"
    /\ UNCHANGED download_tasks
    /\ BgGoto(d, "bg_done", "none")

\* line 87
bg_error(d) ==
    /\ bgpc[d] = "bg_error"
    /\ SetTask(d, "error", bgval[d])
    /\ BgGoto(d, "bg_done", "none")

\* a download thread that also records the end of the download in the
\* registry entry of the model
_download_model_MarksRegistry(d) ==
    /\ d \in DOMAIN bgpc
    /\ \/ bg_start(d)
       \/ bg_progress(d)
       \/ bg_fetch(d)
       \/ bg_completed(d)
       \/ bg_prog1(d)
       \/ bg_path(d)
       \/ bg_failed(d)
       \/ bg_error(d)
    /\ models' = [k \in DOMAIN models |->
                     IF k = download_tasks[d].model_config.model_id /\ bgpc'[d] = "bg_done"
                     THEN [models[k] EXCEPT !.is_downloading = FALSE]
                     ELSE models[k]]
    /\ UNCHANGED <<disk, loaded_models, active, lock, nInst, nextOid, locals>>

\* one statement of the download thread of task d
_download_model(d) ==
    /\ d \in DOMAIN bgpc
    /\ \/ bg_start(d)
       \/ bg_progress(d)
       \/ bg_fetch(d)
       \/ bg_completed(d)
       \/ bg_prog1(d)
       \/ bg_path(d)
       \/ bg_failed(d)
       \/ bg_error(d)
    /\ UNCHANGED <<models, disk, loaded_models, active, lock, nInst, nextOid, locals>>

\* ModelLoader.get_download_status, as the router calls it
get_download_status(t, d) ==
    /\ IF d \in DOMAIN download_tasks
       THEN Finish(t, "status", NoId, "dict", d, download_tasks[d])
       ELSE Finish(t, "status", NoId, "None", d, NoTaskDict)
    /\ UNCHANGED <<shared, bgvars>>

(* ---- ModelLoader.load_model ------------------------------------------- *)
\* lines 99-105: only llm and embedding models reach an instantiator
Instantiable(mi) == mi.model_type \in {"llm", "embedding"}

(* ---- ModelManagerComponent.load_model --------------------------------- *)
\* the router's load handler calls load_model(id)
load_call(t, id) ==
    /\ Enter(t, "load", id, "none", NoConfig, "ld_lock")
    /\ UNCHANGED <<shared, bgvars>>

\* lines 80-87 with an unknown model answered by False instead of the error
load_begin_NoError(t) ==
    /\ pc[t] = "ld_lock"
    /\ LockFree(t)
    /\ IF a_id[t] \notin DOMAIN models
       THEN LoadReturn(t, "False") /\ lock' = NoLock
       ELSE IF models[a_id[t]].is_loaded
            THEN LoadReturn(t, "True") /\ lock' = NoLock
            ELSE /\ lock' = t
                 /\ info' = [info EXCEPT ![t] = models[a_id[t]]]
                 /\ Goto(t, "ld_inst")
                 /\ UNCHANGED <<model, data>>
    /\ UNCHANGED <<models, disk, loaded_models, active, download_tasks, nInst, nextOid, bgvars>>

\* lines 80-87: take the lock, look the model up, return early
load_begin(t) ==
    /\ pc[t] = "ld_lock"
    /\ LockFree(t)
    /\ IF a_id[t] \notin DOMAIN models
       THEN LoadReturn(t, "ValueError") /\ lock' = NoLock
       ELSE IF models[a_id[t]].is_loaded
            THEN LoadReturn(t, "True") /\ lock' = NoLock
            ELSE /\ lock' = t
                 /\ info' = [info EXCEPT ![t] = models[a_id[t]]]
                 /\ Goto(t, "ld_inst")
                 /\ UNCHANGED <<model, data>>
    /\ UNCHANGED <<models, disk, loaded_models, active, download_tasks, nInst, nextOid, bgvars>>

\* line 90 with is_loaded set before the result of the instantiator is looked at
load_instantiate_FlagFirst(t) ==
    /\ pc[t] = "ld_inst"
    /\ \/ /\ Instantiable(info[t])
          /\ nInst < MaxLoads
          /\ nInst' = nInst + 1
          /\ model' = [model EXCEPT ![t] = nInst + 1]
          /\ Goto(t, "ld_store")
          /\ UNCHANGED <<lock, info, data, models>>
       \/ /\ LoadReturn(t, "False")
          /\ lock' = NoLock
          /\ models' = SetLoadedInPlace(models, info[t], TRUE)
          /\ UNCHANGED nInst
    /\ UNCHANGED <<disk, loaded_models, active, download_tasks, nextOid, bgvars>>

\* line 90: ModelLoader.load_model returns a new handle or None
load_instantiate(t) ==
    /\ pc[t] = "ld_inst"
    /\ \/ /\ Instantiable(info[t])
          /\ nInst < MaxLoads
          /\ nInst' = nInst + 1
          /\ model' = [model EXCEPT ![t] = nInst + 1]
          /\ Goto(t, "ld_store")
          /\ UNCHANGED <<lock, info, data>>
       \/ /\ LoadReturn(t, "False")
          /\ lock' = NoLock
          /\ UNCHANGED nInst
    /\ UNCHANGED <<models, disk, loaded_models, active, download_tasks, nextOid, bgvars>>

\* line 92: self.loaded_models[model_id] = model
load_store(t) ==
    /\ pc[t] = "ld_store"
    /\ loaded_models' = Put(loaded_models, a_id[t], model[t])
    /\ Goto(t, "ld_flag")
    /\ UNCHANGED <<models, disk, active, download_tasks, lock, nInst, nextOid, bgvars, info, model, data>>

\* line 93: model_info.is_loaded = True
load_flag(t) ==
    /\ pc[t] = "ld_flag"
    /\ info' = [info EXCEPT ![t] = [@ EXCEPT !.is_loaded = TRUE]]
    /\ models' = SetLoadedInPlace(models, info[t], TRUE)
    /\ Goto(t, "ld_upd")
    /\ UNCHANGED <<disk, loaded_models, active, download_tasks, lock, nInst, nextOid, bgvars, model, data>>

\* an update_model that changes the registry and does not write the document
load_update_NoSave(t) ==
    /\ pc[t] = "ld_upd"
    /\ models' = Put(models, info[t].model_id, info[t])
    /\ LoadReturn(t, "True")
    /\ lock' = NoLock
    /\ UNCHANGED <<disk, loaded_models, active, download_tasks, nInst, nextOid, bgvars>>

\* line 94 and registry line 54: self.models[model_info.model_id] = model_info
load_update(t) ==
    /\ pc[t] = "ld_upd"
    /\ models' = Put(models, info[t].model_id, info[t])
    /\ Goto(t, "ld_snap")
    /\ UNCHANGED <<disk, loaded_models, active, download_tasks, lock, nInst, nextOid, bgvars, info, model, data>>

(* ---- ModelManagerComponent.unload_model ------------------------------- *)
\* the router's unload handler calls unload_model(id)
unload_call(t, id) ==
    /\ Enter(t, "unload", id, "none", NoConfig, "ul_lock")
    /\ UNCHANGED <<shared, bgvars>>

\* lines 102-113 with the registry flag cleared also when there is no handle
unload_begin_AlwaysClears(t) ==
    /\ pc[t] = "ul_lock"
    /\ LockFree(t)
    /\ IF a_id[t] \in DOMAIN loaded_models
       THEN /\ loaded_models' = Del(loaded_models, a_id[t])
            /\ lock' = t
            /\ Goto(t, "ul_get")
            /\ UNCHANGED <<info, model, data, models>>
       ELSE /\ UnloadReturn(t, "False")
            /\ lock' = NoLock
            /\ models' = [k \in DOMAIN models |->
                             IF k = a_id[t] THEN [models[k] EXCEPT !.is_loaded = FALSE] ELSE models[k]]
            /\ UNCHANGED loaded_models
    /\ UNCHANGED <<disk, active, download_tasks, nInst, nextOid, bgvars>>

\* lines 102-104 and 113: take the lock, drop the handle if there is one
unload_begin(t) ==
    /\ pc[t] = "ul_lock"
    /\ LockFree(t)
    /\ IF a_id[t] \in DOMAIN loaded_models
       THEN /\ loaded_models' = Del(loaded_models, a_id[t])
            /\ lock' = t
            /\ Goto(t, "ul_get")
            /\ UNCHANGED <<info, model, data>>
       ELSE /\ UnloadReturn(t, "False")
            /\ lock' = NoLock
            /\ UNCHANGED loaded_models
    /\ UNCHANGED <<models, disk, active, download_tasks, nInst, nextOid, bgvars>>

\* an unload_model that also forgets the model as the active one of its type
unload_get_ClearsActive(t) ==
    /\ pc[t] = "ul_get"
    /\ IF a_id[t] \in DOMAIN models
       THEN /\ info' = [info EXCEPT ![t] = models[a_id[t]]]
            /\ Goto(t, "ul_flag")
            /\ UNCHANGED <<lock, model, data>>
       ELSE /\ UnloadReturn(t, "True")
            /\ lock' = NoLock
    /\ active' = [ty \in SwitchTypes |-> IF active[ty] = a_id[t] THEN NoId ELSE active[ty]]
    /\ UNCHANGED <<models, disk, loaded_models, download_tasks, nInst, nextOid, bgvars>>

\* lines 106-107: model_info = self.model_registry.get_model(model_id)
unload_get(t) ==
    /\ pc[t] = "ul_get"
    /\ IF a_id[t] \in DOMAIN models
       THEN /\ info' = [info EXCEPT ![t] = models[a_id[t]]]
            /\ Goto(t, "ul_flag")
            /\ UNCHANGED <<lock, model, data>>
       ELSE /\ UnloadReturn(t, "True")
            /\ lock' = NoLock
    /\ UNCHANGED <<models, disk, loaded_models, active, download_tasks, nInst, nextOid, bgvars>>

\* line 108: model_info.is_loaded = False
unload_flag(t) ==
    /\ pc[t] = "ul_flag"
    /\ info' = [info EXCEPT ![t] = [@ EXCEPT !.is_loaded = FALSE]]
    /\ models' = SetLoadedInPlace(models, info[t], FALSE)
    /\ Goto(t, "ul_upd")
    /\ UNCHANGED <<disk, loaded_models, active, download_tasks, lock, nInst, nextOid, bgvars, model, data>>

\* line 109 and registry line 54
unload_update(t) ==
    /\ pc[t] = "ul_upd"
    /\ models' = Put(models, info[t].model_id, info[t])
    /\ Goto(t, "ul_snap")
    /\ UNCHANGED <<disk, loaded_models, active, download_tasks, lock, nInst, nextOid, bgvars, info, model, data>>

(* ---- ModelManagerComponent.switch_active_model ------------------------ *)
\* line 121: if not self.get_model(model_id), load it first
switch_active_model(t, id, ty) ==
    /\ Enter(t, "switch", id, ty, NoConfig,
             IF id \in DOMAIN loaded_models THEN "sw_set" ELSE "ld_lock")
    /\ UNCHANGED <<shared, bgvars>>

\* lines 127-129: setattr(self, f"active_{model_type}_id", model_id)
switch_set(t) ==
    /\ pc[t] = "sw_set"
    /\ active' = [active EXCEPT ![a_type[t]] = a_id[t]]
    /\ Return(t, "True", NoTask)
    /\ UNCHANGED <<models, disk, loaded_models, download_tasks, lock, nInst, nextOid, bgvars>>

(* ---- models_router.delete_model --------------------------------------- *)
\* line 122: model_manager.unload_model(model_id), result ignored
delete_model(t, id) ==
    /\ Enter(t, "delete", id, "none", NoConfig, "ul_lock")
    /\ UNCHANGED <<shared, bgvars>>

\* ModelRegistry.remove_model lines 59-63, up to the del
remove_model(t) ==
    /\ pc[t] = "rm_del"
    /\ IF a_id[t] \in DOMAIN models
       THEN /\ models' = Del(models, a_id[t])
            /\ Goto(t, "rm_snap")
            /\ UNCHANGED <<info, model, data>>
       ELSE /\ Return(t, "False", NoTask)
            /\ UNCHANGED models
    /\ UNCHANGED <<disk, loaded_models, active, download_tasks, lock, nInst, nextOid, bgvars>>

(* ---- ModelRegistry.get_all_models and a caller of it ------------------- *)
\* registry line 50, through list_available_models: self.models.copy(), a
\* new dict that holds the ModelInfo objects of the registry themselves
get_all_models(t) ==
    /\ pc[t] = "done"
    /\ listed' = [listed EXCEPT ![t] = [k \in DOMAIN models |-> models[k]]]
    /\ pc' = [pc EXCEPT ![t] = "ga_held"]
    /\ op' = [op EXCEPT ![t] = "list"]
    /\ resp' = NoResp
    /\ UNCHANGED <<shared, bgvars, a_id, a_type, a_cfg, info, model, data>>

\* the caller has used the mapping it holds
Used(t) ==
    /\ pc' = [pc EXCEPT ![t] = "ga_used"]
    /\ UNCHANGED <<op, a_id, a_type, a_cfg, info, model, data, resp>>

\* the caller puts an entry of its own under id into the returned mapping
caller_adds_key(t, id) ==
    /\ pc[t] = "ga_held"
    /\ id \notin DOMAIN listed[t]
    /\ listed' = [listed EXCEPT ![t] = Put(@, id, NoInfo)]
    /\ Used(t)
    /\ UNCHANGED <<shared, bgvars>>

\* the caller deletes the key id from the returned mapping
caller_removes_key(t, id) ==
    /\ pc[t] = "ga_held"
    /\ id \in DOMAIN listed[t]
    /\ listed' = [listed EXCEPT ![t] = Del(@, id)]
    /\ Used(t)
    /\ UNCHANGED <<shared, bgvars>>

\* the caller assigns v to is_loaded of the ModelInfo returned under id
caller_sets_is_loaded(t, id, v) ==
    /\ pc[t] = "ga_held"
    /\ id \in DOMAIN listed[t]
    /\ listed' = [listed EXCEPT ![t] = [@ EXCEPT ![id].is_loaded = v]]
    /\ models' = SetLoadedInPlace(models, listed[t][id], v)
    /\ Used(t)
    /\ UNCHANGED <<disk, loaded_models, active, download_tasks, lock, nInst, nextOid, bgvars>>

\* the caller lets go of the returned mapping
caller_returns(t) ==
    /\ pc[t] = "ga_used"
    /\ pc' = [pc EXCEPT ![t] = "done"]
    /\ op' = [op EXCEPT ![t] = "none"]
    /\ listed' = [listed EXCEPT ![t] = EmptyMap]
    /\ resp' = Resp(t, "list", NoId, "dict", NoTask, NoTaskDict)
    /\ UNCHANGED <<shared, bgvars, a_id, a_type, a_cfg, info, model, data>>

(* ---- the system -------------------------------------------------------- *)
\* download_model calls that have registered a model so far
Downloads == nextOid - FirstOid

\* the task ids a caller asks about: all that can exist
TaskIds == 1 .. (MaxDownloads + MaxTasks + MaxFairTasks - 2)

\* the callers of the sequential system: one request at a time
Callers == {"t1"}

\* requests come in one at a time; download threads run beside them
Next ==
    \/ \E t \in Callers, cfg \in Configs : Downloads < MaxDownloads /\ download_model(t, cfg)
    \/ \E t \in Callers, d \in TaskIds : get_download_status(t, d)
    \/ \E t \in Callers, id \in ModelIds : load_call(t, id)
    \/ \E t \in Callers, id \in ModelIds : unload_call(t, id)
    \/ \E t \in Callers, id \in ModelIds, ty \in SwitchTypes : switch_active_model(t, id, ty)
    \/ \E t \in Callers, id \in ModelIds : delete_model(t, id)
    \/ \E t \in Callers : save_snapshot(t)
    \/ \E t \in Callers : save_write(t)
    \/ \E t \in Callers : start_download(t)
    \/ \E t \in Callers : load_begin(t)
    \/ \E t \in Callers : load_instantiate(t)
    \/ \E t \in Callers : load_store(t)
    \/ \E t \in Callers : load_flag(t)
    \/ \E t \in Callers : load_update(t)
    \/ \E t \in Callers : unload_begin(t)
    \/ \E t \in Callers : unload_get(t)
    \/ \E t \in Callers : unload_flag(t)
    \/ \E t \in Callers : unload_update(t)
    \/ \E t \in Callers : switch_set(t)
    \/ \E t \in Callers : remove_model(t)
    \/ \E d \in TaskIds : _download_model(d)

Spec == Init /\ [][Next]_vars

\* two callers load and unload the model m1 at the same time
NextLU ==
    \/ \E t \in Threads : load_call(t, "m1")
    \/ \E t \in Threads : unload_call(t, "m1")
    \/ \E t \in Threads : load_begin(t)
    \/ \E t \in Threads : load_instantiate(t)
    \/ \E t \in Threads : load_store(t)
    \/ \E t \in Threads : load_flag(t)
    \/ \E t \in Threads : load_update(t)
    \/ \E t \in Threads : unload_begin(t)
    \/ \E t \in Threads : unload_get(t)
    \/ \E t \in Threads : unload_flag(t)
    \/ \E t \in Threads : unload_update(t)
    \/ \E t \in Threads : save_snapshot(t)
    \/ \E t \in Threads : save_write(t)

SpecLU == Init /\ [][NextLU]_vars

\* callers download and poll while the download threads run
NextDL ==
    \/ \E t \in Threads, cfg \in Configs : Downloads < MaxTasks /\ download_model(t, cfg)
    \/ \E t \in Threads, d \in TaskIds : get_download_status(t, d)
    \/ \E t \in Threads : save_snapshot(t)
    \/ \E t \in Threads : save_write(t)
    \/ \E t \in Threads : start_download(t)
    \/ \E d \in TaskIds : _download_model(d)

SpecDL == Init /\ [][NextDL]_vars

\* downloads are started and every started download thread keeps running
NextFair ==
    \/ \E t \in Callers, cfg \in Configs : Downloads < MaxFairTasks /\ download_model(t, cfg)
    \/ \E t \in Callers : save_snapshot(t)
    \/ \E t \in Callers : save_write(t)
    \/ \E t \in Callers : start_download(t)
    \/ \E d \in TaskIds : _download_model(d)

SpecFair == Init /\ [][NextFair]_vars /\ \A d \in TaskIds : WF_vars(_download_model(d))

\* two callers delete, load, unload and switch to the model m1 at the same time
NextDel ==
    \/ \E t \in Threads : delete_model(t, "m1")
    \/ \E t \in Threads : load_call(t, "m1")
    \/ \E t \in Threads : unload_call(t, "m1")
    \/ \E t \in Threads, ty \in SwitchTypes : switch_active_model(t, "m1", ty)
    \/ \E t \in Threads : load_begin(t)
    \/ \E t \in Threads : load_instantiate(t)
    \/ \E t \in Threads : load_store(t)
    \/ \E t \in Threads : load_flag(t)
    \/ \E t \in Threads : load_update(t)
    \/ \E t \in Threads : unload_begin(t)
    \/ \E t \in Threads : unload_get(t)
    \/ \E t \in Threads : unload_flag(t)
    \/ \E t \in Threads : unload_update(t)
    \/ \E t \in Threads : switch_set(t)
    \/ \E t \in Threads : remove_model(t)
    \/ \E t \in Threads : save_snapshot(t)
    \/ \E t \in Threads : save_write(t)

SpecDel == Init /\ [][NextDel]_vars

\* two callers register m1 by download_model, update it by load_model and
\* unload_model and remove it by delete_model at the same time
NextReg ==
    \/ \E t \in Threads, cfg \in Configs : Downloads < MaxRegs /\ download_model(t, cfg)
    \/ \E t \in Threads : load_call(t, "m1")
    \/ \E t \in Threads : unload_call(t, "m1")
    \/ \E t \in Threads : delete_model(t, "m1")
    \/ \E t \in Threads : start_download(t)
    \/ \E t \in Threads : load_begin(t)
    \/ \E t \in Threads : load_instantiate(t)
    \/ \E t \in Threads : load_store(t)
    \/ \E t \in Threads : load_flag(t)
    \/ \E t \in Threads : load_update(t)
    \/ \E t \in Threads : unload_begin(t)
    \/ \E t \in Threads : unload_get(t)
    \/ \E t \in Threads : unload_flag(t)
    \/ \E t \in Threads : unload_update(t)
    \/ \E t \in Threads : remove_model(t)
    \/ \E t \in Threads : save_snapshot(t)
    \/ \E t \in Threads : save_write(t)

SpecReg == Init /\ [][NextReg]_vars

\* requests come in one at a time and a write of the document can fail
NextWF ==
    \/ \E t \in Callers, cfg \in Configs : Downloads < MaxFailRegs /\ download_model(t, cfg)
    \/ \E t \in Callers, id \in ModelIds : load_call(t, id)
    \/ \E t \in Callers, id \in ModelIds : unload_call(t, id)
    \/ \E t \in Callers, id \in ModelIds, ty \in SwitchTypes : switch_active_model(t, id, ty)
    \/ \E t \in Callers, id \in ModelIds : delete_model(t, id)
    \/ \E t \in Callers : save_snapshot(t)
    \/ \E t \in Callers : save_write(t)
    \/ \E t \in Callers : save_fails(t)
    \/ \E t \in Callers : start_download(t)
    \/ \E t \in Callers : load_begin(t)
    \/ \E t \in Callers : load_instantiate(t)
    \/ \E t \in Callers : load_store(t)
    \/ \E t \in Callers : load_flag(t)
    \/ \E t \in Callers : load_update(t)
    \/ \E t \in Callers : unload_begin(t)
    \/ \E t \in Callers : unload_get(t)
    \/ \E t \in Callers : unload_flag(t)
    \/ \E t \in Callers : unload_update(t)
    \/ \E t \in Callers : switch_set(t)
    \/ \E t \in Callers : remove_model(t)

SpecWF == Init /\ [][NextWF]_vars

\* one caller at a time loads, unloads and deletes models, or takes the
\* mapping of all models and changes what it was given
NextGA ==
    \/ \E t \in Callers : get_all_models(t)
    \/ \E t \in Callers, id \in ModelIds : caller_adds_key(t, id)
    \/ \E t \in Callers, id \in ModelIds : caller_removes_key(t, id)
    \/ \E t \in Callers, id \in ModelIds, v \in BOOLEAN : caller_sets_is_loaded(t, id, v)
    \/ \E t \in Callers : caller_returns(t)
    \/ \E t \in Callers, id \in ModelIds : load_call(t, id)
    \/ \E t \in Callers, id \in ModelIds : unload_call(t, id)
    \/ \E t \in Callers, id \in ModelIds : delete_model(t, id)
    \/ \E t \in Callers : load_begin(t)
    \/ \E t \in Callers : load_instantiate(t)
    \/ \E t \in Callers : load_store(t)
    \/ \E t \in Callers : load_flag(t)
    \/ \E t \in Callers : load_update(t)
    \/ \E t \in Callers : unload_begin(t)
    \/ \E t \in Callers : unload_get(t)
    \/ \E t \in Callers : unload_flag(t)
    \/ \E t \in Callers : unload_update(t)
    \/ \E t \in Callers : remove_model(t)
    \/ \E t \in Callers : save_snapshot(t)
    \/ \E t \in Callers : save_write(t)

SpecGA == Init /\ [][NextGA]_vars

(* ---- properties --------------------------------------------------------- *)
\* no Manager operation is in progress
Quiescent == \A t \in Threads : pc[t] = "done"

\* the registry says id is loaded
Flagged(id) == id \in DOMAIN models /\ models[id].is_loaded

\* the Manager holds a handle for id
Held(id) == id \in DOMAIN loaded_models

\* C1: whenever no Manager operation is in progress, a registry entry has
\* is_loaded = true exactly when its model id has a handle in loaded_models.
C1_FlagReflectsHandleMap ==
    Quiescent => \A id \in DOMAIN models : models[id].is_loaded <=> Held(id)

\* C2: once all concurrent load(m1) and unload(m1) calls have returned, the
\* is_loaded flag of m1 equals its membership in loaded_models.
C2_LoadUnloadReconcile == Quiescent => (Flagged("m1") <=> Held("m1"))

\* a load and an unload of m1 have both gone through and all calls are back
C2_Witness ==
    /\ Quiescent
    /\ resp.op = "unload" /\ resp.ret = "True"
    /\ nInst = MaxLoads
    /\ "m1" \in DOMAIN models /\ ~ Flagged("m1") /\ ~ Held("m1")

\* C3: a download config without a repository identifier is refused before
\* anything is recorded: it never gets a task entry, a download thread or a
\* task id.
C3_NoRepoFailsSynchronously ==
    /\ \A d \in DOMAIN download_tasks : download_tasks[d].model_config.repo_id # "none"
    /\ \A d \in DOMAIN bgpc : download_tasks[d].model_config.repo_id # "none"
    /\ \A t \in Threads : (pc[t] = "dl_start" => a_cfg[t].repo_id # "none")

\* C4: a task's status changes only from downloading, and only to completed
\* or failed; so it changes at most once and a terminal status stays.
C4_StatusChangesOnce ==
    [][\A d \in DOMAIN download_tasks :
          download_tasks'[d].status # download_tasks[d].status
             => /\ download_tasks[d].status = "downloading"
                /\ download_tasks'[d].status \in {"completed", "failed"}]_vars

\* one download has completed and another has failed
C4_Witness ==
    /\ \E d \in DOMAIN download_tasks : download_tasks[d].status = "completed" /\ bgpc[d] = "bg_done"
    /\ \E d \in DOMAIN download_tasks : download_tasks[d].status = "failed" /\ bgpc[d] = "bg_done"

\* task d is completed and says where the files are
Completed(d) ==
    /\ d \in DOMAIN download_tasks
    /\ download_tasks[d].status = "completed"
    /\ download_tasks[d].local_path # NoPath

\* task d has failed and says why
Failed(d) ==
    /\ d \in DOMAIN download_tasks
    /\ download_tasks[d].status = "failed"
    /\ download_tasks[d].error # NoError

\* C5: with download threads that keep running and a fetcher that returns or
\* fails, every task eventually is completed with a local_path or failed with
\* an error, and no task ever has both a local_path and an error.
C5_EveryTaskEnds ==
    /\ [](\A d \in DOMAIN download_tasks :
             ~ (download_tasks[d].local_path # NoPath /\ download_tasks[d].error # NoError))
    /\ \A d \in TaskIds : (d \in DOMAIN download_tasks) ~> (Completed(d) \/ Failed(d))

\* one task ended completed with its path, another failed with its error
C5_Witness ==
    \E d, e \in DOMAIN download_tasks :
        /\ Completed(d) /\ download_tasks[d].error = NoError
        /\ Failed(e) /\ download_tasks[e].local_path = NoPath

\* a task id is handed back by start_download in this step
DownloadReturns == \E t \in Threads : pc[t] = "dl_start" /\ pc'[t] = "done"

\* the id handed back is new, its entry starts as downloading at 0.0, and
\* the entries that were there stay as they are
FreshTaskKept ==
    /\ DownloadReturns =>
          /\ resp'.rid \notin DOMAIN download_tasks
          /\ resp'.rid \in DOMAIN download_tasks'
          /\ download_tasks'[resp'.rid].status = "downloading"
          /\ download_tasks'[resp'.rid].progress = P00
          /\ \A d \in DOMAIN download_tasks : download_tasks'[d] = download_tasks[d]
    /\ DOMAIN download_tasks \subseteq DOMAIN download_tasks'

\* the caller that just got a task id from download asks for its status
PollAfterDownload ==
    /\ resp.op = "download" /\ resp.ret = "id"
    /\ resp'.op = "status" /\ resp'.t = resp.t /\ resp'.rid = resp.rid

\* the status read shows a running download with progress 0.0 or 0.1
ReadsDownloading == resp'.obs.status = "downloading" /\ resp'.obs.progress \in {P00, P01}

\* the download thread of task d has not yet written a terminal status
BeforeTerminalWrite(d) == bgpc[d] \in {"bg_start", "bg_progress", "bg_fetch", "bg_completed", "bg_failed"}

\* C6 as stated: download returns a task id not returned before and keeps the
\* existing entries, and a status read right after download() returns shows
\* status = downloading with progress between 0.0 and 0.1.
C6_StatusRightAfterDownload ==
    [][FreshTaskKept /\ (PollAfterDownload => ReadsDownloading)]_vars

\* C6 amended: download returns a task id not returned before, records its
\* entry as downloading at 0.0 and keeps the existing entries; a status read
\* after download() returns shows downloading with progress 0.0 or 0.1 as
\* long as the download thread has not written its terminal status, and
\* completed or failed once it has.
C6_StatusAfterDownloadUnlessEnded ==
    [][/\ FreshTaskKept
       /\ PollAfterDownload =>
             IF BeforeTerminalWrite(resp.rid)
             THEN ReadsDownloading
             ELSE resp'.obs.status \in {"completed", "failed"}]_vars

\* the second download was polled and is shown as running at 0.1
C6_Witness ==
    /\ resp.op = "status" /\ resp.ret = "dict" /\ resp.rid = 2
    /\ resp.obs.status = "downloading" /\ resp.obs.progress = P01
    /\ Cardinality(DOMAIN download_tasks) = 2

\* load_model, called by thread t, gives its answer r in this step
LoadAnswers(t, r) ==
    IF op[t] = "switch" /\ r = "True"
    THEN pc'[t] = "sw_set"
    ELSE pc'[t] = "done" /\ resp'.t = t /\ resp'.ret = r

\* unload_model, called by thread t, gives its answer r in this step
UnloadAnswers(t, r) ==
    IF op[t] = "delete"
    THEN pc'[t] = "rm_del"
    ELSE pc'[t] = "done" /\ resp'.t = t /\ resp'.ret = r

\* C7: load of a model that has a handle in loaded_models returns true, does
\* not call the instantiator and does not replace the handle.
C7_LoadOfHeldIsNoOp ==
    [][/\ \A t \in Threads :
             /\ (pc[t] = "ld_lock" /\ pc'[t] # "ld_lock" /\ Held(a_id[t])) => LoadAnswers(t, "True")
             /\ (pc[t] = "ld_inst" /\ pc'[t] # "ld_inst") => ~ Held(a_id[t])
       /\ \A id \in DOMAIN loaded_models :
             id \in DOMAIN loaded_models' => loaded_models'[id] = loaded_models[id]]_vars

\* C8: when the instantiator fails for a registered model that is not flagged
\* loaded (always so for a model type that is neither llm nor embedding),
\* load returns false and loaded_models, the registry and the document are
\* as they were when load was called.
C8_FailedLoadChangesNothing ==
    [][\A t \in Threads :
          /\ (pc[t] = "ld_lock" /\ pc'[t] = "ld_inst") => UNCHANGED <<loaded_models, models, disk>>
          /\ (pc[t] = "ld_inst" /\ pc'[t] # "ld_inst" /\ ~ Instantiable(info[t])) => model'[t] = NoHandle
          /\ (pc[t] = "ld_inst" /\ pc'[t] # "ld_inst" /\ model'[t] = NoHandle)
                => /\ LoadAnswers(t, "False")
                   /\ UNCHANGED <<loaded_models, models, disk>>]_vars

\* load of a registered model of type analysis has returned false
C8_Witness ==
    /\ Quiescent
    /\ resp.op = "load" /\ resp.ret = "False"
    /\ resp.id \in DOMAIN models
    /\ models[resp.id].model_type = "analysis" /\ ~ models[resp.id].is_loaded

\* C9: load of an id without a registry entry fails with the not-found
\* error, calls no instantiator and leaves loaded_models, the registry and
\* the document as they were.
C9_LoadUnknownFails ==
    [][\A t \in Threads :
          (pc[t] = "ld_lock" /\ pc'[t] # "ld_lock" /\ a_id[t] \notin DOMAIN models)
             => /\ LoadAnswers(t, "ValueError")
                /\ pc'[t] = "done"
                /\ UNCHANGED <<loaded_models, models, disk, nInst>>]_vars

\* load of an unregistered id has raised the error
C9_Witness ==
    /\ Quiescent
    /\ resp.op = "load" /\ resp.ret = "ValueError"
    /\ resp.id \notin DOMAIN models

\* C10: unload of an id without a handle returns false and leaves
\* loaded_models, the registry (is_loaded included) and the document as they
\* were.
C10_UnloadWithoutHandleIsNoOp ==
    [][\A t \in Threads :
          (pc[t] = "ul_lock" /\ pc'[t] # "ul_lock" /\ ~ Held(a_id[t]))
             => /\ UnloadAnswers(t, "False")
                /\ UNCHANGED <<loaded_models, models, disk>>]_vars

\* unload of a model that is flagged loaded but has no handle has returned false
C10_Witness ==
    /\ Quiescent
    /\ resp.op = "unload" /\ resp.ret = "False"
    /\ Flagged(resp.id) /\ ~ Held(resp.id)

\* ModelManagerComponent.get_model: the handle held for id, or none
get_model(id) == IF id \in DOMAIN loaded_models THEN loaded_models[id] ELSE NoHandle

\* thread t calls unload of the id whose load has just returned true to it
UnloadAfterLoad(t) ==
    /\ resp.t = t /\ resp.op = "load" /\ resp.ret = "True"
    /\ pc[t] = "done" /\ pc'[t] = "ul_lock"
    /\ op'[t] = "unload" /\ a_id'[t] = resp.id

\* unload, called by thread t, comes back to the router in this step
UnloadComesBack(t) == op[t] = "unload" /\ pc[t] # "done" /\ pc'[t] = "done"

\* C11: an unload(id) called right after load(id) returned true finds the
\* handle of id, and an unload that finds the handle returns true with
\* get_model(id) none and is_loaded false for id both in the registry and in
\* the document; so unload after a successful load never returns false.
C11_UnloadAfterLoad ==
    [][\A t \in Callers, id \in ModelIds :
          /\ (UnloadAfterLoad(t) /\ resp.id = id) => get_model(id) # NoHandle
          /\ (UnloadComesBack(t) /\ pc[t] # "ul_lock" /\ a_id[t] = id)
                => /\ resp'.ret = "True"
                   /\ get_model(id)' = NoHandle
                   /\ id \in DOMAIN models' => ~ models'[id].is_loaded
                   /\ id \in DOMAIN disk' => ~ disk'[id].is_loaded]_vars

\* ModelManagerComponent.get_active_model: the handle of the active id of
\* type ty, or none
get_active_model(ty) == IF active[ty] # NoId THEN get_model(active[ty]) ELSE NoHandle

\* thread t is inside switch_active_model at position p
InSwitch(t, p) == op[t] = "switch" /\ pc[t] = p

\* C12: switch_active_model of a registered id without a handle calls
\* load_model, that load calls the instantiator, and the call never comes
\* back to load_model or the instantiator, so there is exactly one load with
\* one instantiator invocation; and when switch_active_model returns true,
\* get_active_model(type) is the handle get_model(id) gives.
C12_SwitchLoadsOnce ==
    [][\A t \in Callers, id \in ModelIds, ty \in SwitchTypes :
          /\ (pc[t] = "done" /\ op'[t] = "switch" /\ a_id'[t] = id /\ get_model(id) = NoHandle)
                => pc'[t] = "ld_lock"
          /\ (InSwitch(t, "ld_lock") /\ pc'[t] # "ld_lock" /\ a_id[t] \in DOMAIN models)
                => pc'[t] = "ld_inst"
          /\ (op[t] = "switch" /\ pc[t] \notin {"done", "ld_lock"} /\ pc'[t] # pc[t])
                => pc'[t] \notin {"ld_lock", "ld_inst"}
          /\ (InSwitch(t, "sw_set") /\ pc'[t] = "done" /\ a_id[t] = id /\ a_type[t] = ty)
                => /\ resp'.ret = "True"
                   /\ get_active_model(ty)' = get_model(id)']_vars

\* ModelManagerComponent.list_available_models: the ids of the registry
list_available_models == DOMAIN models

\* the call that returned last is a delete of id, and no call is in progress
DeleteReturned(id) == Quiescent /\ resp.op = "delete" /\ resp.id = id

\* C13: once delete(m1) has returned and the load, unload and switch calls
\* that ran beside it have returned too, m1 is neither in loaded_models nor
\* in list_available_models.
C13_DeletedIsGone ==
    DeleteReturned("m1") => get_model("m1") = NoHandle /\ "m1" \notin list_available_models

\* ModelInfo(**model_data): a new object with the fields of the dict
ModelInfoOf(d, o) ==
    [model_id |-> d.model_id, model_type |-> d.model_type, model_name |-> d.model_name,
     model_path |-> d.model_path, is_loaded |-> d.is_loaded,
     is_downloading |-> d.is_downloading, size_gb |-> d.size_gb,
     capabilities |-> d.capabilities, oid |-> o]

\* ModelRegistry._load_registry: the mapping a new Registry reads from doc
_load_registry(doc) == [k \in DOMAIN doc |-> ModelInfoOf(doc[k], DocOid)]

\* two ModelInfo objects are equal in all fields
SameFields(a, b) ==
    /\ a.model_id = b.model_id /\ a.model_type = b.model_type
    /\ a.model_name = b.model_name /\ a.model_path = b.model_path
    /\ a.is_loaded = b.is_loaded /\ a.is_downloading = b.is_downloading
    /\ a.size_gb = b.size_gb /\ a.capabilities = b.capabilities

\* a new Registry read from the document has the entries of the registry
ReloadEqualsMemory ==
    /\ DOMAIN _load_registry(disk) = DOMAIN models
    /\ \A k \in DOMAIN models : SameFields(_load_registry(disk)[k], models[k])

\* C14: with one caller at a time, whenever the register, update and remove
\* calls made so far have returned, a Registry constructed from the document
\* has exactly the ids of the in-memory registry, each with all fields equal;
\* a removed id is in neither.
C14_ReloadRoundTrip == Quiescent => ReloadEqualsMemory

\* m1 was registered by download_model and updated by load_model, and
\* current_llm was removed by the delete that has just returned
C14_Witness ==
    /\ Quiescent
    /\ resp.op = "delete" /\ resp.ret = "True" /\ resp.id = "current_llm"
    /\ "current_llm" \notin DOMAIN models /\ "current_llm" \notin DOMAIN disk
    /\ "m1" \in DOMAIN disk /\ disk["m1"].is_loaded
    /\ Flagged("m1") /\ models["m1"].oid >= FirstOid

\* the task dict d is completed with its path and progress 1.0, or failed
\* with its error, or still downloading with neither
WholeTask(d) ==
    /\ d.status = "completed" => d.local_path # NoPath /\ d.progress = P10
    /\ d.status = "failed" => d.error # NoError
    /\ d.error # NoError <=> d.status = "failed"
    /\ d.local_path # NoPath <=> d.status = "completed"

\* C15: every task dict that get_download_status hands to a caller is whole:
\* completed only together with local_path and progress 1.0, failed only
\* together with error, error exactly when failed and local_path exactly
\* when completed.
C15_ReadsSeeWholeTransition ==
    (resp.op = "status" /\ resp.ret = "dict") => WholeTask(resp.obs)

\* thread t records id as the active model in this step and returns true
RecordsActive(t, id) ==
    /\ InSwitch(t, "sw_set") /\ a_id[t] = id
    /\ pc'[t] = "done" /\ resp'.op = "switch" /\ resp'.ret = "True"

\* C16: no unload takes effect between the loaded-check (or the load) of
\* switch_active_model and its setattr: at the step that records m1 as
\* active and returns true, loaded_models holds a handle for m1.
C16_SwitchRecordsHeldModel ==
    [][\A t \in Threads : RecordsActive(t, "m1") => get_model("m1") # NoHandle]_vars

\* the document has the entry of id exactly as the registry has it, or
\* neither has one
DocumentHas(id) ==
    IF id \in DOMAIN models
    THEN id \in DOMAIN disk /\ disk[id] = Dict(models[id])
    ELSE id \notin DOMAIN disk

\* C17: once the download, load, unload and delete calls that ran at the
\* same time have all returned, and no write of the document has failed, the
\* document holds exactly the entries of the in-memory registry.
C17_DocumentMatchesMemory == Quiescent => \A id \in ModelIds : DocumentHas(id)

\* the positions of a caller inside _save_registry
SavePositions == {"dl_snap", "ld_snap", "ul_snap", "rm_snap", "dl_write", "ld_write", "ul_write", "rm_write"}

\* the _save_registry that thread t is in ends in this step without having
\* written the data of the registry
WriteFailed(t) ==
    /\ pc[t] \in SavePositions /\ pc'[t] \notin SavePositions
    /\ pc[t] \in {"dl_snap", "ld_snap", "ul_snap", "rm_snap"} \/ disk' # data[t]

\* the change the operation of thread t made to the entry of id is in the
\* registry after this step
ChangeKept(t, id) ==
    CASE pc[t] \in {"dl_snap", "dl_write"} ->
            id \in DOMAIN models' /\ models'[id].is_downloading /\ ~ models'[id].is_loaded
      [] pc[t] \in {"ld_snap", "ld_write"} ->
            id \in DOMAIN models' /\ models'[id].is_loaded /\ get_model(id)' # NoHandle
      [] pc[t] \in {"ul_snap", "ul_write"} ->
            id \in DOMAIN models' /\ ~ models'[id].is_loaded /\ get_model(id)' = NoHandle
      [] pc[t] \in {"rm_snap", "rm_write"} -> id \notin DOMAIN models'

\* the operation of thread t goes on after the write as after a good one
GoesOnNormally(t) ==
    CASE pc[t] \in {"dl_snap", "dl_write"} -> pc'[t] = "dl_start"
      [] pc[t] \in {"ld_snap", "ld_write"} -> LoadAnswers(t, "True")
      [] pc[t] \in {"ul_snap", "ul_write"} -> UnloadAnswers(t, "True")
      [] pc[t] \in {"rm_snap", "rm_write"} -> pc'[t] = "done" /\ resp'.ret = "True"

\* C18: when the write of the document fails inside register_model,
\* update_model or remove_model, the operation goes on as after a good
\* write (download starts its task, load and unload return true, remove
\* returns true), and the registry and loaded_models keep the change: they
\* are what they were before the failed write, which is what later reads see.
C18_WriteFailureKeepsMemory ==
    [][\A t \in Callers, id \in ModelIds :
          (WriteFailed(t) /\ a_id[t] = id)
             => /\ GoesOnNormally(t)
                /\ UNCHANGED <<models, loaded_models, active>>
                /\ ChangeKept(t, id)]_vars

\* load of m1 has returned true and m1 is loaded in memory, while the
\* document, whose write failed, does not say so
C18_Witness ==
    /\ Quiescent
    /\ resp.op = "load" /\ resp.ret = "True" /\ resp.id = "m1"
    /\ Flagged("m1") /\ get_model("m1") # NoHandle /\ "m1" \in list_available_models
    /\ "m1" \in DOMAIN disk /\ ~ disk["m1"].is_loaded

\* the download thread of task d makes a step
BackgroundStep(d) == d \in DOMAIN bgpc /\ bgpc'[d] # bgpc[d]

\* the download thread of task d has ended, completed or failed
Ended(d) == d \in DOMAIN bgpc /\ bgpc[d] = "bg_done"

\* the registry entry of id is as download_model registered it
AsRegistered(id) ==
    /\ id \in DOMAIN models
    /\ models[id].is_downloading /\ ~ models[id].is_loaded /\ models[id].model_path = NoPath

\* C19: a step of a download thread changes nothing but its own task entry:
\* the registry, the document, loaded_models, the active ids and the other
\* tasks' entries stay as they are; and where only downloads are at work,
\* the registry entry of a task that has ended is still is_downloading =
\* true, is_loaded = false, without model_path.
C19_DownloadThreadFrame ==
    /\ [][\A d \in TaskIds :
             BackgroundStep(d)
                => /\ UNCHANGED <<models, disk, loaded_models, active>>
                   /\ DOMAIN download_tasks' = DOMAIN download_tasks
                   /\ \A e \in DOMAIN download_tasks \ {d} : download_tasks'[e] = download_tasks[e]]_vars
    /\ [](\A d \in TaskIds : Ended(d) => AsRegistered(download_tasks[d].model_config.model_id))

\* both downloads of m1 have ended, one completed and one failed, and the
\* entry the last download_model registered is still marked as downloading
C19_Witness ==
    /\ \E d, e \in DOMAIN download_tasks :
          /\ Ended(d) /\ download_tasks[d].status = "completed"
          /\ Ended(e) /\ download_tasks[e].status = "failed"
    /\ AsRegistered("m1") /\ models["m1"].oid = FirstOid + 1

\* thread t is a switch_active_model that sets the active id of its type to
\* its model id in this step and returns true
SwitchSucceeds(t) ==
    /\ InSwitch(t, "sw_set") /\ pc'[t] = "done"
    /\ resp'.t = t /\ resp'.op = "switch" /\ resp'.ret = "True"
    /\ active' = [active EXCEPT ![a_type[t]] = a_id[t]]

\* the call that returned last is an unload or a delete of the model that is
\* active for type ty
ActiveWasDropped(ty) ==
    /\ Quiescent
    /\ resp.op \in {"unload", "delete"}
    /\ active[ty] # NoId /\ active[ty] = resp.id

\* C20: the active ids change only in the step in which a
\* switch_active_model returns true, so load, unload, download, delete and
\* a switch that fails leave them as they are; and after an unload or a
\* delete of the active model get_active_model(type) is none while the
\* active id of the type still names the model.
C20_ActiveChangedOnlyBySwitch ==
    /\ [][active' # active => \E t \in Callers : SwitchSucceeds(t)]_vars
    /\ [](\A ty \in SwitchTypes : ActiveWasDropped(ty) => get_active_model(ty) = NoHandle)

\* m1 was loaded, made active and then deleted: it is still named as the
\* active llm, and get_active_model gives none
C20_Witness ==
    /\ Quiescent
    /\ resp.op = "delete" /\ resp.ret = "True" /\ resp.id = "m1"
    /\ active["llm"] = "m1" /\ nInst > 0
    /\ get_active_model("llm") = NoHandle /\ "m1" \notin list_available_models

\* thread t changes the mapping get_all_models gave it in this step
CallerChangesReturned(t) == pc[t] = "ga_held" /\ pc'[t] = "ga_used" /\ listed'[t] # listed[t]

\* C21: the mapping get_all_models returns is a defensive copy: whatever a
\* caller changes through it, a key added, a key removed or is_loaded of a
\* returned ModelInfo assigned, the registry stays as it was.
C21_GetAllIsDefensiveCopy ==
    [][\A t \in Callers : CallerChangesReturned(t) => UNCHANGED models]_vars

====
